---- MODULE Spec2Model ----
(***************************************************************************)
(* Reservation concurrency and lifecycle engine of the hotel booking       *)
(* backend: the in-memory Database (rooms, bookings, payments, locks) and  *)
(* BookingService (createBooking, processPayment, cancelBooking, checkIn,  *)
(* checkOut), plus the room controller's deleteRoom.                       *)
(*                                                                         *)
(* Every `await` of the code is a scheduling point: the code between two   *)
(* awaits is one atomic action, and the actions of different calls         *)
(* interleave freely.  Whether the 10 s timeout of acquireLock has elapsed *)
(* when a waiter wakes and finds the lock set is left open.                *)
(*                                                                         *)
(* The operations that run without an await (cancelBooking, checkIn,       *)
(* checkOut, and the two halves of processPayment) are written as          *)
(* functions of the store, <op>_run / _start / _finish, giving what the    *)
(* call returns or throws and the maps it leaves; the actions install      *)
(* those maps.  A call that throws leaves the store as it was.             *)
(*                                                                         *)
(* Timestamps are integers in units of half a day; amounts of the payment  *)
(* are in cents.                                                           *)
(*                                                                         *)
(* Spec runs every operation on short stays; SpecCreate runs createBooking *)
(* alone; SpecLongStay follows one booking of any stay up to five nights   *)
(* through its lifecycle; Spec_v1 runs the createBooking of the earlier    *)
(* BookingService (src/services/bookingService.ts), which has no input     *)
(* validation and no processing fee.  SpecCreateFair and SpecFlow add the  *)
(* scheduling of the event loop (ready continuations run, timers fire) to  *)
(* SpecCreate and Spec.  getAvailableRooms and getNextAvailableDate are    *)
(* operators on the store.                                                 *)
(***************************************************************************)
EXTENDS Integers, FiniteSets, Sequences, TLC

\* ---------------------------------------------------------------- bounds
MaxCalls == 2       \* createBooking invocations
MaxDate == 3        \* timestamps 1..MaxDate (half-day ticks)
MaxSettle == 1      \* processPayment calls suspended on one payment at once
MaxStayDate == 11   \* timestamps 1..MaxStayDate of the stays of SpecLongStay

\* ------------------------------------------------------ program constants
TicksPerDay == 2    \* 1000 * 60 * 60 * 24 ms, in ticks
FeePercent == 3     \* config.payment.processingFee = 0.03

NaNDate == -1       \* a Date whose getTime() is NaN
EmptyId == -1       \* the empty string passed as an identifier
UnknownId == 0      \* a well-formed identifier that is not in the store
Undefined == -2     \* an optional argument or field that is not given

PENDING == "PENDING"
CONFIRMED == "CONFIRMED"
CHECKED_IN == "CHECKED_IN"
CHECKED_OUT == "CHECKED_OUT"
CANCELLED == "CANCELLED"
PROCESSING == "PROCESSING"
COMPLETED == "COMPLETED"
FAILED == "FAILED"
REFUNDED == "REFUNDED"

BookingStatus == {PENDING, CONFIRMED, CHECKED_IN, CHECKED_OUT, CANCELLED}
PaymentStatus == {PENDING, PROCESSING, COMPLETED, FAILED, REFUNDED}

\* Rooms created by Database.initializeData (room-1: 101 SINGLE, room-3: 201 DOUBLE).
SeedRooms == {"room-1", "room-3"}
capacity == [r \in SeedRooms |-> IF r = "room-1" THEN 1 ELSE 2]
pricePerNight == [r \in SeedRooms |-> IF r = "room-1" THEN 100 ELSE 150]
roomType == [r \in SeedRooms |-> IF r = "room-1" THEN "SINGLE" ELSE "DOUBLE"]

\* The order in which the rooms were put into the rooms map, which is the
\* order db.getAllRooms lists them in.
RoomOrder == <<"room-1", "room-3">>

\* ----------------------------------------------------------------- inputs
\* Identifiers are positive integers: the booking and the payment written by
\* the c-th createBooking call get the fresh identifier c (uuidv4()), and the
\* c-th call is issued by guest c (guestId is only tested for emptiness and
\* stored).
CallIds == 1 .. MaxCalls
GuestInputs == {EmptyId} \cup CallIds
RoomInputs == {"", "room-0"} \cup SeedRooms
DateInputs == {NaNDate} \cup (1 .. MaxDate)
GuestCountInputs == 0 .. 2
IdInputs == {EmptyId, UnknownId} \cup CallIds
SettlementOutcomes == BOOLEAN

VARIABLES
    rooms,      \* Database.rooms: the identifiers of the rooms in the store
    bookings,   \* Database.bookings: id -> Booking
    payments,   \* Database.payments: id -> Payment
    locks,      \* Database.locks: the keys that are set (room-booking-<roomId>)
    calls,      \* the createBooking invocations: arguments, position, result
    settling    \* payment id -> number of processPayment calls suspended in the delay

vars == <<rooms, bookings, payments, locks, calls, settling>>

IdleCall ==
    [pc |-> "idle", guestId |-> 0, roomId |-> "", checkInDate |-> 0,
     checkOutDate |-> 0, numberOfGuests |-> 0, isAvailable |-> FALSE,
     result |-> "none", error |-> ""]

Init ==
    /\ rooms = SeedRooms
    /\ bookings = << >>
    /\ payments = << >>
    /\ locks = {}
    /\ calls = [c \in CallIds |-> IdleCall]
    /\ settling = [p \in CallIds |-> 0]

\* ------------------------------------------------------- Database helpers
\* db.getBookingsByRoomId, on a bookings map
getBookingsByRoomId(bs, roomId) ==
    {b \in DOMAIN bs : bs[b].roomId = roomId}

\* An update that writes the status into every booking of the store.
updateBooking_everyBooking(bs, id, status) ==
    [b \in DOMAIN bs |-> [bs[b] EXCEPT !.status = status]]

\* db.updateBooking(id, {status})
updateBooking(bs, id, status) ==
    IF id \in DOMAIN bs THEN [bs EXCEPT ![id].status = status] ELSE bs

\* db.updatePayment(id, {status})
updatePayment(ps, id, status) ==
    IF id \in DOMAIN ps THEN [ps EXCEPT ![id].status = status] ELSE ps

\* acquireLock without the test of the lock: every caller takes it at once.
LockIsFree_always(roomId) == TRUE

\* One lock for all rooms: free only when no key at all is set.
LockIsFree_global(roomId) == locks = {}

\* db.acquireLock: the test of the while loop and the set that follows it
LockIsFree(roomId) == roomId \notin locks

\* A release that flips the key: it frees a held lock and sets a free one.
releaseLock_toggles(ls, roomId) ==
    IF roomId \in ls THEN ls \ {roomId} ELSE ls \cup {roomId}

\* db.releaseLock
releaseLock(ls, roomId) == ls \ {roomId}

\* --------------------------------------------------- Availability (4.2)
\* A date comparison over closed intervals: the check-out day is occupied.
DatesOverlap_closed(checkIn, checkOut, bookingCheckIn, bookingCheckOut) ==
    \/ (checkIn >= bookingCheckIn /\ checkIn <= bookingCheckOut)
    \/ (checkOut >= bookingCheckIn /\ checkOut <= bookingCheckOut)
    \/ (checkIn <= bookingCheckIn /\ checkOut >= bookingCheckOut)

\* A date comparison that only looks at where the requested stay begins.
DatesOverlap_startInsideOnly(checkIn, checkOut, bookingCheckIn, bookingCheckOut) ==
    checkIn >= bookingCheckIn /\ checkIn < bookingCheckOut

\* The three-way date comparison of checkRoomAvailability.
DatesOverlap(checkIn, checkOut, bookingCheckIn, bookingCheckOut) ==
    \/ (checkIn >= bookingCheckIn /\ checkIn < bookingCheckOut)
    \/ (checkOut > bookingCheckIn /\ checkOut <= bookingCheckOut)
    \/ (checkIn <= bookingCheckIn /\ checkOut >= bookingCheckOut)

\* An availability check that also skips bookings still awaiting payment.
BlocksAvailability_skipsPending(booking) ==
    booking.status # CANCELLED /\ booking.status # PENDING

\* An availability check that skips no booking, cancelled or not.
BlocksAvailability_evenCancelled(booking) == TRUE

\* The bookings checkRoomAvailability does not skip.
BlocksAvailability(booking) == booking.status # CANCELLED

\* An availability check that does not look the room up first.
Available_missingRoomIsFree(rs, bs, roomId, checkIn, checkOut) ==
    ~ \E b \in getBookingsByRoomId(bs, roomId) :
        /\ BlocksAvailability(bs[b])
        /\ DatesOverlap(checkIn, checkOut, bs[b].checkInDate, bs[b].checkOutDate)

\* BookingService.checkRoomAvailability, on a given store
Available(rs, bs, roomId, checkIn, checkOut) ==
    IF roomId \notin rs THEN FALSE
    ELSE ~ \E b \in getBookingsByRoomId(bs, roomId) :
            /\ BlocksAvailability(bs[b])
            /\ DatesOverlap(checkIn, checkOut, bs[b].checkInDate, bs[b].checkOutDate)

checkRoomAvailability(roomId, checkIn, checkOut) ==
    Available(rooms, bookings, roomId, checkIn, checkOut)

\* The non-cancelled bookings of a room whose check-out is after fromDate.
NextAvailableCandidates(bs, roomId, fromDate) ==
    {b \in getBookingsByRoomId(bs, roomId) :
        bs[b].status # CANCELLED /\ bs[b].checkOutDate > fromDate}

\* The booking at which the loop of getNextAvailableDate stops: the first
\* candidate in ascending check-in order (the sort is stable, and bookings
\* of one room are listed in the order they were written, that of their
\* ids).
FirstCandidate(bs, roomId, fromDate) ==
    LET cands == NextAvailableCandidates(bs, roomId, fromDate)
    IN  CHOOSE b \in cands :
            \A b2 \in cands :
                \/ bs[b].checkInDate < bs[b2].checkInDate
                \/ bs[b].checkInDate = bs[b2].checkInDate /\ b <= b2

\* BookingService.getNextAvailableDate: the check-out date of the booking
\* the loop stops at, or Undefined when it runs to the end.
getNextAvailableDate(bs, roomId, fromDate) ==
    IF NextAvailableCandidates(bs, roomId, fromDate) = {} THEN Undefined
    ELSE bs[FirstCandidate(bs, roomId, fromDate)].checkOutDate

\* `if (x && ...)` on an optional number: 0 and a missing value are both falsy.
Truthy(x) == x # Undefined /\ x # 0

\* The three `continue` tests of getAvailableRooms.
PassesFilters(roomId, query) ==
    /\ ~(query.roomType # "" /\ roomType[roomId] # query.roomType)
    /\ ~(Truthy(query.minCapacity) /\ capacity[roomId] < query.minCapacity)
    /\ ~(Truthy(query.maxPrice) /\ pricePerNight[roomId] > query.maxPrice)

\* db.getAllRooms followed by the filters of the loop.
FilteredRooms(rs, query) ==
    LET Keep(r) == r \in rs /\ PassesFilters(r, query)
    IN  SelectSeq(RoomOrder, Keep)

\* The entry pushed for a room when no date range is given.
UndatedEntry(roomId) ==
    [roomId |-> roomId, type |-> roomType[roomId], isAvailable |-> TRUE,
     availableFrom |-> Undefined, pricePerNight |-> pricePerNight[roomId]]

\* The entry pushed for a room when a range is given.  isAvailable is what
\* checkRoomAvailability returned before the await, bs the bookings when
\* getAvailableRooms resumes.
PushedEntry(bs, roomId, isAvailable, checkInDate) ==
    [roomId |-> roomId, type |-> roomType[roomId],
     isAvailable |-> isAvailable,
     availableFrom |-> IF isAvailable THEN Undefined
                       ELSE getNextAvailableDate(bs, roomId, checkInDate),
     pricePerNight |-> pricePerNight[roomId]]

\* One iteration of the loop when no other operation runs during its await.
DatedEntry(rs, bs, roomId, checkInDate, checkOutDate) ==
    PushedEntry(bs, roomId, Available(rs, bs, roomId, checkInDate, checkOutDate),
                checkInDate)

\* BookingService.getAvailableRooms on a given store: what it throws, or the
\* list it returns.
getAvailableRooms(rs, bs, query) ==
    LET kept == FilteredRooms(rs, query) IN
    IF query.checkInDate = Undefined \/ query.checkOutDate = Undefined
    THEN [result |-> "ok", error |-> "",
          rooms |-> [i \in DOMAIN kept |-> UndatedEntry(kept[i])]]
    ELSE IF query.checkInDate = NaNDate \/ query.checkOutDate = NaNDate
    THEN [result |-> "ValidationError", error |-> "Invalid date format",
          rooms |-> << >>]
    ELSE IF query.checkOutDate <= query.checkInDate
    THEN [result |-> "ValidationError",
          error |-> "Check-out date must be after check-in date", rooms |-> << >>]
    ELSE [result |-> "ok", error |-> "",
          rooms |-> [i \in DOMAIN kept |->
                        DatedEntry(rs, bs, kept[i], query.checkInDate,
                                   query.checkOutDate)]]

\* The queries getAvailableRooms is called with.
Queries ==
    [checkInDate : {Undefined, NaNDate} \cup (1 .. MaxDate),
     checkOutDate : {Undefined, NaNDate} \cup (1 .. MaxDate),
     roomType : {"", "SINGLE", "DOUBLE", "SUITE"},
     minCapacity : {Undefined} \cup (0 .. 3),
     maxPrice : {Undefined, 0, 100, 150}]

\* ------------------------------------------------------------ createBooking
\* The input validation at the head of createBooking.
ValidInput(guestId, roomId, checkIn, checkOut, n) ==
    /\ guestId # EmptyId /\ roomId # ""
    /\ checkIn # NaNDate /\ checkOut # NaNDate
    /\ ~(checkOut <= checkIn)
    /\ ~(n = 0 \/ n < 1)

ValidationMessage(guestId, roomId, checkIn, checkOut, n) ==
    IF guestId = EmptyId \/ roomId = "" THEN "Guest ID and Room ID are required"
    ELSE IF checkIn = NaNDate \/ checkOut = NaNDate THEN "Invalid date format"
    ELSE IF checkOut <= checkIn THEN "Check-out date must be after check-in date"
    ELSE "Number of guests must be at least 1"

\* The requests the c-th createBooking call can be made with.
Requests(c) ==
    [guestId : {EmptyId, c}, roomId : RoomInputs, checkInDate : DateInputs,
     checkOutDate : DateInputs, numberOfGuests : GuestCountInputs]

RequestIsValid(q) ==
    ValidInput(q.guestId, q.roomId, q.checkInDate, q.checkOutDate, q.numberOfGuests)

\* Math.ceil(a / b) for a >= 0, b > 0
Ceil(a, b) == (a + b - 1) \div b

\* nights = Math.ceil((checkOut - checkIn) / one day)
Nights(checkIn, checkOut) == Ceil(checkOut - checkIn, TicksPerDay)

\* totalPrice in whole currency units
TotalPrice(roomId, checkIn, checkOut) ==
    pricePerNight[roomId] * Nights(checkIn, checkOut)

\* Number((totalPrice * 0.03).toFixed(2)), in cents
ProcessingFee(totalPrice) == totalPrice * FeePercent

\* createBooking called with input that fails validation: it throws before
\* acquireLock; the call keeps only the error.
createBooking_invalid(c) ==
    /\ calls[c].pc = "idle"
    /\ \A d \in CallIds : d < c => calls[d].pc # "idle"
    /\ \E q \in Requests(c) :
        /\ ~RequestIsValid(q)
        /\ calls' = [calls EXCEPT ![c] =
                [IdleCall EXCEPT !.pc = "done", !.result = "ValidationError",
                    !.error = ValidationMessage(q.guestId, q.roomId, q.checkInDate,
                                                q.checkOutDate, q.numberOfGuests)]]
    /\ UNCHANGED <<rooms, bookings, payments, locks, settling>>

\* createBooking called with valid input: runs up to `await db.acquireLock`,
\* whose first test of the lock happens in the same synchronous stretch.
createBooking_call(c) ==
    /\ calls[c].pc = "idle"
    /\ \A d \in CallIds : d < c => calls[d].pc # "idle"
    /\ \E q \in Requests(c) :
        /\ RequestIsValid(q)
        /\ LET args == [IdleCall EXCEPT !.guestId = q.guestId, !.roomId = q.roomId,
                            !.checkInDate = q.checkInDate,
                            !.checkOutDate = q.checkOutDate,
                            !.numberOfGuests = q.numberOfGuests]
           IN  IF LockIsFree(q.roomId)
               THEN /\ calls' = [calls EXCEPT ![c] = [args EXCEPT !.pc = "locked"]]
                    /\ locks' = locks \cup {q.roomId}
               ELSE /\ calls' = [calls EXCEPT ![c] = [args EXCEPT !.pc = "waiting"]]
                    /\ locks' = locks
    /\ UNCHANGED <<rooms, bookings, payments, settling>>

\* A waiter that wakes and takes the lock without looking at it.
acquireLock_poll_takesHeldLock(c) ==
    /\ calls[c].pc = "waiting"
    /\ locks' = locks \cup {calls[c].roomId}
    /\ calls' = [calls EXCEPT ![c].pc = "locked"]
    /\ UNCHANGED <<rooms, bookings, payments, settling>>

\* A waiter that sleeps without a timer and is never woken.
acquireLock_poll_neverWakes(c) ==
    /\ calls[c].pc = "waiting"
    /\ FALSE
    /\ UNCHANGED vars

\* acquireLock: a waiter wakes after the 10 ms sleep and finds the lock free.
acquireLock_poll(c) ==
    /\ calls[c].pc = "waiting"
    /\ LockIsFree(calls[c].roomId)
    /\ locks' = locks \cup {calls[c].roomId}
    /\ calls' = [calls EXCEPT ![c].pc = "locked"]
    /\ UNCHANGED <<rooms, bookings, payments, settling>>

\* A lock timeout that is reported as the room being unavailable.
acquireLock_timeout_returnsNull(c) ==
    /\ calls[c].pc = "waiting"
    /\ ~LockIsFree(calls[c].roomId)
    /\ calls' = [calls EXCEPT ![c].pc = "done", ![c].result = "null"]
    /\ UNCHANGED <<rooms, bookings, payments, locks, settling>>

\* A timeout thrown inside the try block, so that the finally block releases
\* a lock the call never held.
acquireLock_timeout_releases(c) ==
    /\ calls[c].pc = "waiting"
    /\ ~LockIsFree(calls[c].roomId)
    /\ calls' = [calls EXCEPT ![c].pc = "done", ![c].result = "ValidationError",
                    ![c].error = "Unable to process booking at this time. Please try again."]
    /\ locks' = releaseLock(locks, calls[c].roomId)
    /\ UNCHANGED <<rooms, bookings, payments, settling>>

\* acquireLock: a waiter wakes, the lock is still set and the timeout has
\* elapsed: acquireLock returns false and createBooking throws before `try`.
acquireLock_timeout(c) ==
    /\ calls[c].pc = "waiting"
    /\ ~LockIsFree(calls[c].roomId)
    /\ calls' = [calls EXCEPT ![c].pc = "done", ![c].result = "ValidationError",
                    ![c].error = "Unable to process booking at this time. Please try again."]
    /\ UNCHANGED <<rooms, bookings, payments, locks, settling>>

\* createBooking resumes with the lock and evaluates checkRoomAvailability
\* up to `await this.checkRoomAvailability(...)`.
createBooking_check(c) ==
    /\ calls[c].pc = "locked"
    /\ calls' = [calls EXCEPT
                   ![c].pc = "checked",
                   ![c].isAvailable = checkRoomAvailability(
                       calls[c].roomId, calls[c].checkInDate, calls[c].checkOutDate)]
    /\ UNCHANGED <<rooms, bookings, payments, locks, settling>>

NewBooking(c) ==
    [guestId |-> calls[c].guestId,
     roomId |-> calls[c].roomId,
     checkInDate |-> calls[c].checkInDate,
     checkOutDate |-> calls[c].checkOutDate,
     numberOfGuests |-> calls[c].numberOfGuests,
     totalPrice |-> TotalPrice(calls[c].roomId, calls[c].checkInDate,
                               calls[c].checkOutDate),
     status |-> PENDING]

\* A payment record that does not carry its booking's id.
NewPayment_unlinked(c) ==
    LET totalPrice == TotalPrice(calls[c].roomId, calls[c].checkInDate,
                                 calls[c].checkOutDate)
    IN  [bookingId |-> UnknownId,
         amount |-> totalPrice * 100 + ProcessingFee(totalPrice),
         processingFee |-> ProcessingFee(totalPrice),
         status |-> PENDING,
         transactionId |-> FALSE,
         paidAt |-> FALSE]

NewPayment(c) ==
    LET totalPrice == TotalPrice(calls[c].roomId, calls[c].checkInDate,
                                 calls[c].checkOutDate)
    IN  [bookingId |-> c,
         amount |-> totalPrice * 100 + ProcessingFee(totalPrice),
         processingFee |-> ProcessingFee(totalPrice),
         status |-> PENDING,
         transactionId |-> FALSE,
         paidAt |-> FALSE]

\* A capacity test that also turns away a party of exactly the capacity.
CommitResult_rejectsFullRoom(c) ==
    IF ~calls[c].isAvailable THEN "null"
    ELSE IF calls[c].roomId \notin rooms THEN "NotFoundError"
    ELSE IF calls[c].numberOfGuests >= capacity[calls[c].roomId]
         THEN "ValidationError"
    ELSE "created"

\* What the rest of the try block returns or throws, from the current store.
CommitResult(c) ==
    IF ~calls[c].isAvailable THEN "null"
    ELSE IF calls[c].roomId \notin rooms THEN "NotFoundError"
    ELSE IF calls[c].numberOfGuests > capacity[calls[c].roomId]
         THEN "ValidationError"
    ELSE "created"

CommitError(c) ==
    IF CommitResult(c) = "NotFoundError" THEN "Room not found"
    ELSE IF CommitResult(c) = "ValidationError" THEN "Room capacity exceeded"
    ELSE ""

\* The lock released on the two return paths only, not in a finally block.
LocksAtExit_onReturnOnly(c, res) ==
    IF res \in {"created", "null"} THEN releaseLock(locks, calls[c].roomId) ELSE locks

\* The finally block of createBooking: the lock table when the call exits
\* the try block with result res.
LocksAtExit(c, res) == releaseLock(locks, calls[c].roomId)

\* A commit that saves the booking before it validates the capacity, so a
\* capacity failure leaves a booking without a payment.
createBooking_commit_savesBeforeCapacityCheck(c) ==
    /\ calls[c].pc = "checked"
    /\ calls' = [calls EXCEPT ![c].pc = "done", ![c].result = CommitResult(c),
                              ![c].error = CommitError(c)]
    /\ IF CommitResult(c) = "created"
       THEN /\ bookings' = bookings @@ (c :> NewBooking(c))
            /\ payments' = payments @@ (c :> NewPayment(c))
       ELSE IF CommitResult(c) = "ValidationError"
       THEN /\ bookings' = bookings @@ (c :> NewBooking(c))
            /\ payments' = payments
       ELSE UNCHANGED <<bookings, payments>>
    /\ locks' = LocksAtExit(c, CommitResult(c))
    /\ UNCHANGED <<rooms, settling>>

\* createBooking resumes with isAvailable and runs to its end: the rest of
\* the try block and the finally block.
createBooking_commit(c) ==
    /\ calls[c].pc = "checked"
    /\ calls' = [calls EXCEPT ![c].pc = "done", ![c].result = CommitResult(c),
                              ![c].error = CommitError(c)]
    /\ IF CommitResult(c) = "created"
       THEN /\ bookings' = bookings @@ (c :> NewBooking(c))
            /\ payments' = payments @@ (c :> NewPayment(c))
       ELSE UNCHANGED <<bookings, payments>>
    /\ locks' = LocksAtExit(c, CommitResult(c))
    /\ UNCHANGED <<rooms, settling>>

createBooking_step ==
    \E c \in CallIds :
        \/ createBooking_invalid(c)
        \/ createBooking_call(c)
        \/ acquireLock_poll(c)
        \/ acquireLock_timeout(c)
        \/ createBooking_check(c)
        \/ createBooking_commit(c)

\* ----------------------------------------------------------- processPayment
\* processPayment up to the simulated delay, as a function of the store:
\* what it throws (or "suspended") and the payments it leaves.
processPayment_start(ps, paymentId) ==
    IF paymentId = EmptyId
    THEN [result |-> "ValidationError", error |-> "Payment ID is required",
          payments |-> ps]
    ELSE IF paymentId \notin DOMAIN ps
    THEN [result |-> "NotFoundError", error |-> "Payment not found", payments |-> ps]
    ELSE [result |-> "suspended", error |-> "",
          payments |-> updatePayment(ps, paymentId, PROCESSING)]

\* A processPayment that sets the lock of the booking's room before it waits.
processPayment_call_takesLock(paymentId) ==
    LET run == processPayment_start(payments, paymentId) IN
    /\ run.result = "suspended" => settling[paymentId] < MaxSettle
    /\ payments' = run.payments
    /\ settling' = IF run.result = "suspended"
                   THEN [settling EXCEPT ![paymentId] = @ + 1] ELSE settling
    /\ locks' = IF run.result = "suspended"
                THEN locks \cup {bookings[payments[paymentId].bookingId].roomId}
                ELSE locks
    /\ UNCHANGED <<rooms, bookings, calls>>

processPayment_call(paymentId) ==
    LET run == processPayment_start(payments, paymentId) IN
    /\ run.result = "suspended" => settling[paymentId] < MaxSettle
    /\ payments' = run.payments
    /\ settling' = IF run.result = "suspended"
                   THEN [settling EXCEPT ![paymentId] = @ + 1] ELSE settling
    /\ UNCHANGED <<rooms, bookings, locks, calls>>

\* A settlement that records no transaction reference.
Settled_noReference(ps, paymentId) ==
    [ps EXCEPT ![paymentId].status = COMPLETED, ![paymentId].paidAt = TRUE]

\* The payment record after a successful settlement.
Settled(ps, paymentId) ==
    [ps EXCEPT ![paymentId].status = COMPLETED,
               ![paymentId].transactionId = TRUE,
               ![paymentId].paidAt = TRUE]

\* A settlement that writes the payment and never the booking.
processPayment_finish_paymentOnly(ps, bs, paymentId, bookingId, success) ==
    IF success
    THEN [result |-> "true", payments |-> Settled(ps, paymentId), bookings |-> bs]
    ELSE [result |-> "false",
          payments |-> updatePayment(ps, paymentId, FAILED), bookings |-> bs]

\* A failed settlement that marks the payment FAILED and leaves the booking.
processPayment_finish_keepsBooking(ps, bs, paymentId, bookingId, success) ==
    IF success
    THEN [result |-> "true",
          payments |-> Settled(ps, paymentId),
          bookings |-> updateBooking(bs, bookingId, CONFIRMED)]
    ELSE [result |-> "false",
          payments |-> updatePayment(ps, paymentId, FAILED),
          bookings |-> bs]

\* processPayment after the delay, as a function of the store: the value it
\* returns and the payments and bookings it leaves.  bookingId is the
\* bookingId of the payment object read before the delay.
processPayment_finish(ps, bs, paymentId, bookingId, success) ==
    IF success
    THEN [result |-> "true",
          payments |-> Settled(ps, paymentId),
          bookings |-> updateBooking(bs, bookingId, CONFIRMED)]
    ELSE [result |-> "false",
          payments |-> updatePayment(ps, paymentId, FAILED),
          bookings |-> updateBooking(bs, bookingId, CANCELLED)]

processPayment_resolve(paymentId, success) ==
    /\ settling[paymentId] > 0
    /\ LET run == processPayment_finish(payments, bookings, paymentId,
                                        payments[paymentId].bookingId, success)
       IN  /\ payments' = run.payments
           /\ bookings' = run.bookings
    /\ settling' = [settling EXCEPT ![paymentId] = @ - 1]
    /\ UNCHANGED <<rooms, locks, calls>>

\* ------------------------------------------------------------- cancelBooking
\* A refund that does not test the payment's status.
Refund_anyStatus(ps, bookingId) ==
    [p \in DOMAIN ps |->
        IF ps[p].bookingId = bookingId
        THEN [ps[p] EXCEPT !.status = REFUNDED] ELSE ps[p]]

\* A cancellation that never refunds.
Refund_never(ps, bookingId) == ps

\* db.getPaymentByBookingId and the refund that follows it.
Refund(ps, bookingId) ==
    [p \in DOMAIN ps |->
        IF ps[p].bookingId = bookingId /\ ps[p].status = COMPLETED
        THEN [ps[p] EXCEPT !.status = REFUNDED] ELSE ps[p]]

\* cancelBooking without the test for an already cancelled booking.
cancelBooking_run_noCancelledCheck(bs, ps, bookingId) ==
    IF bookingId = EmptyId
    THEN [result |-> "ValidationError", error |-> "Booking ID is required",
          bookings |-> bs, payments |-> ps]
    ELSE IF bookingId \notin DOMAIN bs
    THEN [result |-> "NotFoundError", error |-> "Booking not found",
          bookings |-> bs, payments |-> ps]
    ELSE IF bs[bookingId].status = CHECKED_IN \/ bs[bookingId].status = CHECKED_OUT
    THEN [result |-> "Error",
          error |-> "Cannot cancel a booking that has already been checked in or checked out",
          bookings |-> bs, payments |-> ps]
    ELSE [result |-> "true", error |-> "",
          bookings |-> updateBooking(bs, bookingId, CANCELLED),
          payments |-> Refund(ps, bookingId)]

\* cancelBooking as a function of the store: what it returns or throws and
\* the bookings and payments it leaves.
cancelBooking_run(bs, ps, bookingId) ==
    IF bookingId = EmptyId
    THEN [result |-> "ValidationError", error |-> "Booking ID is required",
          bookings |-> bs, payments |-> ps]
    ELSE IF bookingId \notin DOMAIN bs
    THEN [result |-> "NotFoundError", error |-> "Booking not found",
          bookings |-> bs, payments |-> ps]
    ELSE IF bs[bookingId].status = CANCELLED
    THEN [result |-> "Error", error |-> "Booking is already cancelled",
          bookings |-> bs, payments |-> ps]
    ELSE IF bs[bookingId].status = CHECKED_IN \/ bs[bookingId].status = CHECKED_OUT
    THEN [result |-> "Error",
          error |-> "Cannot cancel a booking that has already been checked in or checked out",
          bookings |-> bs, payments |-> ps]
    ELSE [result |-> "true", error |-> "",
          bookings |-> updateBooking(bs, bookingId, CANCELLED),
          payments |-> Refund(ps, bookingId)]

cancelBooking(bookingId) ==
    /\ bookings' = cancelBooking_run(bookings, payments, bookingId).bookings
    /\ payments' = cancelBooking_run(bookings, payments, bookingId).payments
    /\ UNCHANGED <<rooms, locks, calls, settling>>

\* ------------------------------------------------------- checkIn / checkOut
\* A comparison of the timestamps as they are, time of day included.
StartOfDay_keepsTime(t) == t

\* Date.setHours(0, 0, 0, 0): the start of the day of a timestamp.
StartOfDay(t) == t - (t % TicksPerDay)

\* checkIn as a function of the store and of the clock reading `now`.
checkIn_run(bs, bookingId, now) ==
    IF bookingId = EmptyId
    THEN [result |-> "ValidationError", error |-> "Booking ID is required",
          bookings |-> bs]
    ELSE IF bookingId \notin DOMAIN bs
    THEN [result |-> "NotFoundError", error |-> "Booking not found", bookings |-> bs]
    ELSE IF bs[bookingId].status # CONFIRMED
    THEN [result |-> "Error", error |-> "Only confirmed bookings can be checked in",
          bookings |-> bs]
    ELSE IF StartOfDay(now) < StartOfDay(bs[bookingId].checkInDate)
    THEN [result |-> "Error", error |-> "Check-in date has not arrived yet",
          bookings |-> bs]
    ELSE [result |-> "true", error |-> "",
          bookings |-> updateBooking(bs, bookingId, CHECKED_IN)]

checkIn(bookingId, now) ==
    /\ bookings' = checkIn_run(bookings, bookingId, now).bookings
    /\ UNCHANGED <<rooms, payments, locks, calls, settling>>

\* checkOut without the test of the booking's status.
checkOut_run_anyStatus(bs, bookingId) ==
    IF bookingId = EmptyId
    THEN [result |-> "ValidationError", error |-> "Booking ID is required",
          bookings |-> bs]
    ELSE IF bookingId \notin DOMAIN bs
    THEN [result |-> "NotFoundError", error |-> "Booking not found", bookings |-> bs]
    ELSE [result |-> "true", error |-> "",
          bookings |-> updateBooking(bs, bookingId, CHECKED_OUT)]

\* checkOut as a function of the store.
checkOut_run(bs, bookingId) ==
    IF bookingId = EmptyId
    THEN [result |-> "ValidationError", error |-> "Booking ID is required",
          bookings |-> bs]
    ELSE IF bookingId \notin DOMAIN bs
    THEN [result |-> "NotFoundError", error |-> "Booking not found", bookings |-> bs]
    ELSE IF bs[bookingId].status # CHECKED_IN
    THEN [result |-> "Error", error |-> "Only checked-in bookings can be checked out",
          bookings |-> bs]
    ELSE [result |-> "true", error |-> "",
          bookings |-> updateBooking(bs, bookingId, CHECKED_OUT)]

checkOut(bookingId) ==
    /\ bookings' = checkOut_run(bookings, bookingId).bookings
    /\ UNCHANGED <<rooms, payments, locks, calls, settling>>

\* ---------------------------------------------------------------- deleteRoom
hasActiveBookings(roomId) ==
    \E b \in getBookingsByRoomId(bookings, roomId) :
        bookings[b].status # CANCELLED /\ bookings[b].status # CHECKED_OUT

\* roomController.deleteRoom: the HTTP status it answers with.
deleteRoom_status(roomId) ==
    IF roomId = "" THEN 400
    ELSE IF roomId \notin rooms THEN 404
    ELSE IF hasActiveBookings(roomId) THEN 400
    ELSE 200

deleteRoom(roomId) ==
    /\ rooms' = IF deleteRoom_status(roomId) = 200 THEN rooms \ {roomId} ELSE rooms
    /\ UNCHANGED <<bookings, payments, locks, calls, settling>>

\* ------------------------------------------- bookingController.createBooking
\* The HTTP status the controller answers with, from what the service call
\* returned or threw: null from createBooking is 409, false from
\* processPayment is 402, a thrown error is its statusCode (400 for
\* ValidationError, 404 for NotFoundError) and 500 when it has none.
createBooking_status(result) ==
    IF result = "null" THEN 409
    ELSE IF result = "false" THEN 402
    ELSE IF result = "ValidationError" THEN 400
    ELSE IF result = "NotFoundError" THEN 404
    ELSE IF result = "Error" THEN 500
    ELSE 201

\* ------------------------------------------------------------ specifications
lifecycle_step ==
    \/ \E p \in IdInputs : processPayment_call(p)
    \/ \E p \in CallIds, success \in SettlementOutcomes :
            processPayment_resolve(p, success)
    \/ \E b \in IdInputs : cancelBooking(b)
    \/ \E b \in IdInputs, now \in 1 .. MaxDate : checkIn(b, now)
    \/ \E b \in IdInputs : checkOut(b)

Next ==
    \/ createBooking_step
    \/ lifecycle_step
    \/ \E r \in RoomInputs : deleteRoom(r)

Spec == Init /\ [][Next]_vars

\* The request flow of bookingController.createBooking: the processPayment
\* call it makes on the payment the service has just returned.
FirstSettlement(p) ==
    /\ p \in DOMAIN payments
    /\ payments[p].status = PENDING
    /\ processPayment_call(p)

\* The controller makes that call as soon as createBooking has returned,
\* and the 500 ms timer of a suspended processPayment fires.
FairFlow ==
    \A p \in CallIds :
        /\ WF_vars(FirstSettlement(p))
        /\ WF_vars(\E success \in SettlementOutcomes :
                      processPayment_resolve(p, success))

SpecFlow == Init /\ [][Next]_vars /\ FairFlow

\* Only createBooking calls run.
NextCreate == createBooking_step

SpecCreate == Init /\ [][NextCreate]_vars

\* Only createBooking calls run, and the event loop runs every continuation
\* that is ready: a call that holds the lock resumes from each of its awaits,
\* and a waiter's 10 ms timer fires, after which it either takes the lock or
\* (the lock still set, the timeout elapsed) gives up.
FairCreate ==
    \A c \in CallIds :
        /\ WF_vars(createBooking_check(c))
        /\ WF_vars(createBooking_commit(c))
        /\ WF_vars(acquireLock_poll(c) \/ acquireLock_timeout(c))

SpecCreateFair == Init /\ [][NextCreate]_vars /\ FairCreate

\* ------------------------------------------------- one booking, long stays
\* A createBooking call that holds the lock of a seed room on an empty store,
\* for any stay within 1 .. MaxStayDate and any party that passed validation.
LongStayCall(roomId, checkInDate, checkOutDate, n) ==
    [IdleCall EXCEPT !.pc = "locked", !.guestId = 1, !.roomId = roomId,
                     !.checkInDate = checkInDate, !.checkOutDate = checkOutDate,
                     !.numberOfGuests = n]

InitLongStay ==
    /\ rooms = SeedRooms
    /\ bookings = << >>
    /\ payments = << >>
    /\ settling = [p \in CallIds |-> 0]
    /\ \E r \in SeedRooms, ci \in 1 .. MaxStayDate, co \in 1 .. MaxStayDate,
          n \in 1 .. 2 :
            /\ ValidInput(1, r, ci, co, n)
            /\ locks = {r}
            /\ calls = [c \in CallIds |->
                           IF c = 1 THEN LongStayCall(r, ci, co, n) ELSE IdleCall]

\* The call runs to its end; its booking then goes through its lifecycle.
NextLongStay ==
    \/ \E c \in CallIds : createBooking_check(c) \/ createBooking_commit(c)
    \/ lifecycle_step

SpecLongStay == InitLongStay /\ [][NextLongStay]_vars

\* ------------------------------------------- the earlier BookingService
\* createBooking of src/services/bookingService.ts: no input validation
\* before acquireLock, plain Error for every throw, and a payment of
\* totalPrice with no processing fee.  checkRoomAvailability, the lock and
\* the booking record are those of the later version.

\* The requests the c-th call can be made with.  Dates are parsed ones; the
\* range may be empty or reversed.
Requests_v1(c) ==
    [guestId : {EmptyId, c}, roomId : RoomInputs, checkInDate : 1 .. MaxDate,
     checkOutDate : 1 .. MaxDate, numberOfGuests : GuestCountInputs]

\* createBooking is called: it runs up to `await db.acquireLock`.
createBooking_v1_call(c) ==
    /\ calls[c].pc = "idle"
    /\ \A d \in CallIds : d < c => calls[d].pc # "idle"
    /\ \E q \in Requests_v1(c) :
        LET args == [IdleCall EXCEPT !.guestId = q.guestId, !.roomId = q.roomId,
                         !.checkInDate = q.checkInDate,
                         !.checkOutDate = q.checkOutDate,
                         !.numberOfGuests = q.numberOfGuests]
        IN  IF LockIsFree(q.roomId)
            THEN /\ calls' = [calls EXCEPT ![c] = [args EXCEPT !.pc = "locked"]]
                 /\ locks' = locks \cup {q.roomId}
            ELSE /\ calls' = [calls EXCEPT ![c] = [args EXCEPT !.pc = "waiting"]]
                 /\ locks' = locks
    /\ UNCHANGED <<rooms, bookings, payments, settling>>

\* acquireLock returned false: createBooking throws a plain Error.
acquireLock_v1_timeout(c) ==
    /\ calls[c].pc = "waiting"
    /\ ~LockIsFree(calls[c].roomId)
    /\ calls' = [calls EXCEPT ![c].pc = "done", ![c].result = "Error",
                    ![c].error = "Unable to process booking at this time. Please try again."]
    /\ UNCHANGED <<rooms, bookings, payments, locks, settling>>

NewPayment_v1(c) ==
    [bookingId |-> c,
     amount |-> 100 * TotalPrice(calls[c].roomId, calls[c].checkInDate,
                                 calls[c].checkOutDate),
     status |-> PENDING,
     transactionId |-> FALSE,
     paidAt |-> FALSE]

CommitResult_v1(c) ==
    IF ~calls[c].isAvailable THEN "null"
    ELSE IF calls[c].roomId \notin rooms THEN "Error"
    ELSE IF calls[c].numberOfGuests > capacity[calls[c].roomId] THEN "Error"
    ELSE "created"

CommitError_v1(c) ==
    IF ~calls[c].isAvailable THEN ""
    ELSE IF calls[c].roomId \notin rooms THEN "Room not found"
    ELSE IF calls[c].numberOfGuests > capacity[calls[c].roomId]
         THEN "Room capacity exceeded"
    ELSE ""

\* The rest of the try block and the finally block.
createBooking_v1_commit(c) ==
    /\ calls[c].pc = "checked"
    /\ calls' = [calls EXCEPT ![c].pc = "done", ![c].result = CommitResult_v1(c),
                              ![c].error = CommitError_v1(c)]
    /\ IF CommitResult_v1(c) = "created"
       THEN /\ bookings' = bookings @@ (c :> NewBooking(c))
            /\ payments' = payments @@ (c :> NewPayment_v1(c))
       ELSE UNCHANGED <<bookings, payments>>
    /\ locks' = releaseLock(locks, calls[c].roomId)
    /\ UNCHANGED <<rooms, settling>>

Next_v1 ==
    \E c \in CallIds :
        \/ createBooking_v1_call(c)
        \/ acquireLock_poll(c)
        \/ acquireLock_v1_timeout(c)
        \/ createBooking_check(c)
        \/ createBooking_v1_commit(c)

Spec_v1 == Init /\ [][Next_v1]_vars

\* ==================================================================== claims
\* Half-open intervals [a, b) and [c, d) intersect.
Intersect(a, b, c, d) == a < d /\ c < b

\* The statuses under which a booking occupies its room.
ActiveStatuses == {PENDING, CONFIRMED, CHECKED_IN}

\* Bookings b1 and b2 occupy the same room over intersecting intervals.
DoubleBooked(b1, b2) ==
    /\ b1 # b2
    /\ bookings[b1].roomId = bookings[b2].roomId
    /\ bookings[b1].status \in ActiveStatuses
    /\ bookings[b2].status \in ActiveStatuses
    /\ Intersect(bookings[b1].checkInDate, bookings[b1].checkOutDate,
                 bookings[b2].checkInDate, bookings[b2].checkOutDate)

\* The payment of booking b (payment c is written with booking c).
PaymentOf(b) == payments[b]

\* Call c passed input validation, so it kept its arguments.
Validated(c) == calls[c].pc # "idle" /\ calls[c].roomId # ""

\* Call c is between its acquireLock and its releaseLock.
InCriticalSection(c) == calls[c].pc \in {"locked", "checked"}

TimedOut(c) ==
    calls[c].pc = "done"
    /\ calls[c].error = "Unable to process booking at this time. Please try again."

\* C1 (SpecCreate): while only createBooking calls run, in any interleaving
\* of their steps, no two bookings of one room with status PENDING,
\* CONFIRMED or CHECKED_IN have intersecting [checkIn, checkOut) intervals.
C1_NoOverlapUnderCreate ==
    \A b1 \in DOMAIN bookings : \A b2 \in DOMAIN bookings : ~DoubleBooked(b1, b2)

\* C1 witness: two calls on the same room have both written a booking.
C1_Witness ==
    \E c1 \in CallIds : \E c2 \in CallIds :
        /\ c1 # c2
        /\ calls[c1].result = "created" /\ calls[c2].result = "created"
        /\ calls[c1].roomId = calls[c2].roomId

\* C2: in every reachable state, under any interleaving of createBooking,
\* processPayment, cancelBooking, checkIn and checkOut, the bookings of one
\* room with status PENDING, CONFIRMED or CHECKED_IN are pairwise
\* non-overlapping.
C2_NoOverlap ==
    ~ \E b1 \in DOMAIN bookings : \E b2 \in DOMAIN bookings : DoubleBooked(b1, b2)

\* Some booking other than those of calls c1 and c2 blocks the range of c
\* on its room.
BlockedByOther(c, c1, c2) ==
    \E b \in DOMAIN bookings \ {c1, c2} :
        /\ bookings[b].roomId = calls[c].roomId
        /\ bookings[b].status # CANCELLED
        /\ Intersect(calls[c].checkInDate, calls[c].checkOutDate,
                     bookings[b].checkInDate, bookings[b].checkOutDate)

\* Calls c1 and c2 contend for one existing room with intersecting ranges,
\* both within the room's capacity, and both have run to their end holding
\* the lock in turn.
Contended(c1, c2) ==
    /\ c1 # c2
    /\ Validated(c1) /\ Validated(c2)
    /\ calls[c1].pc = "done" /\ calls[c2].pc = "done"
    /\ ~TimedOut(c1) /\ ~TimedOut(c2)
    /\ calls[c1].roomId = calls[c2].roomId
    /\ calls[c1].roomId \in rooms
    /\ calls[c1].numberOfGuests <= capacity[calls[c1].roomId]
    /\ calls[c2].numberOfGuests <= capacity[calls[c2].roomId]
    /\ Intersect(calls[c1].checkInDate, calls[c1].checkOutDate,
                 calls[c2].checkInDate, calls[c2].checkOutDate)
    /\ ~BlockedByOther(c1, c1, c2) /\ ~BlockedByOther(c2, c1, c2)

\* C3 (SpecCreate): of two createBooking calls for the same free room with
\* overlapping ranges that both obtained the lock, exactly one returns a
\* created pair and the other returns null.
C3_ExactlyOneWins ==
    \A c1 \in CallIds : \A c2 \in CallIds :
        Contended(c1, c2) =>
            \/ calls[c1].result = "created" /\ calls[c2].result = "null"
            \/ calls[c1].result = "null" /\ calls[c2].result = "created"

\* C3 witness: two calls for the same room and range have both ended, the
\* one that took the lock first with a created pair, the other with null.
C3_Witness ==
    /\ Contended(1, 2)
    /\ calls[1].checkInDate = calls[2].checkInDate
    /\ calls[1].checkOutDate = calls[2].checkOutDate
    /\ calls[1].result = "created" /\ calls[2].result = "null"

\* C4: whenever no createBooking call is between acquireLock and releaseLock
\* on a room, that room's lock is free: every call that has returned or
\* thrown has released it, so the next acquireLock succeeds at once.
C4_LockFreeAfterCreate ==
    \A r \in RoomInputs :
        (~ \E c \in CallIds : InCriticalSection(c) /\ calls[c].roomId = r)
            => LockIsFree(r)

\* C4 witness: one call threw "capacity exceeded", another threw "room not
\* found", and no lock is left.
C4_Witness ==
    /\ \E c \in CallIds : calls[c].pc = "done" /\ calls[c].error = "Room capacity exceeded"
    /\ \E c \in CallIds : calls[c].pc = "done" /\ calls[c].error = "Room not found"
    /\ locks = {}

\* C5: once a booking is CANCELLED or CHECKED_OUT, no step changes its
\* status.
C5_TerminalStatuses ==
    [][\A b \in DOMAIN bookings :
          bookings[b].status \in {CANCELLED, CHECKED_OUT}
              => bookings'[b].status = bookings[b].status]_vars

\* C6: cancelBooking on a CHECKED_IN or CHECKED_OUT booking, checkIn on a
\* booking that is not CONFIRMED and checkOut on a booking that is not
\* CHECKED_IN throw an error and leave bookings and payments unchanged.
C6_IllegalTransitionsRejected ==
    \A b \in DOMAIN bookings :
        /\ bookings[b].status \in {CHECKED_IN, CHECKED_OUT} =>
              LET run == cancelBooking_run(bookings, payments, b)
              IN  run.result = "Error" /\ run.bookings = bookings
                  /\ run.payments = payments
        /\ bookings[b].status # CONFIRMED =>
              \A now \in 1 .. MaxDate :
                  LET run == checkIn_run(bookings, b, now)
                  IN  run.result = "Error" /\ run.bookings = bookings
        /\ bookings[b].status # CHECKED_IN =>
              LET run == checkOut_run(bookings, b)
              IN  run.result = "Error" /\ run.bookings = bookings

\* C6 witness: one booking is CHECKED_IN while another is still PENDING.
C6_Witness ==
    \E b1 \in DOMAIN bookings : \E b2 \in DOMAIN bookings :
        bookings[b1].status = CHECKED_IN /\ bookings[b2].status = PENDING

\* C7: cancelBooking on a CANCELLED booking throws 'Booking is already
\* cancelled' and leaves bookings and payments unchanged, so repeating it
\* meets the same state and the same error.
C7_CancelTwiceRejected ==
    \A b \in DOMAIN bookings :
        bookings[b].status = CANCELLED =>
            LET run == cancelBooking_run(bookings, payments, b)
            IN  /\ run.result = "Error"
                /\ run.error = "Booking is already cancelled"
                /\ run.bookings = bookings
                /\ run.payments = payments

\* C7 witness: a booking was cancelled and its completed payment refunded.
C7_Witness ==
    \E b \in DOMAIN bookings :
        /\ bookings[b].status = CANCELLED
        /\ PaymentOf(b).status = REFUNDED
        /\ PaymentOf(b).transactionId

\* A non-cancelled booking other than b intersects b on b's room.
OtherBookingBlocks(b) ==
    \E b2 \in DOMAIN bookings \ {b} :
        /\ bookings[b2].roomId = bookings[b].roomId
        /\ bookings[b2].status # CANCELLED
        /\ Intersect(bookings[b].checkInDate, bookings[b].checkOutDate,
                     bookings[b2].checkInDate, bookings[b2].checkOutDate)

\* C8: when the settlement of a payment fails, processPayment returns false,
\* the payment is FAILED and its booking CANCELLED, and the booking's range
\* is available again on its room unless another booking blocks it.
C8_FailedSettlementFreesSlot ==
    \A p \in DOMAIN payments :
        settling[p] > 0 =>
            LET b == payments[p].bookingId
                run == processPayment_finish(payments, bookings, p, b, FALSE)
            IN  /\ run.result = "false"
                /\ run.payments[p].status = FAILED
                /\ run.bookings[b].status = CANCELLED
                /\ (bookings[b].roomId \in rooms /\ ~OtherBookingBlocks(b))
                      => Available(rooms, run.bookings, bookings[b].roomId,
                                   bookings[b].checkInDate, bookings[b].checkOutDate)

\* C8 witness: the first call's payment failed and its booking is
\* CANCELLED; the second call, by another guest for the same room and
\* range, returned a created pair.
C8_Witness ==
    /\ calls[1].result = "created" /\ calls[2].result = "created"
    /\ payments[1].status = FAILED /\ bookings[1].status = CANCELLED
    /\ settling[1] = 0
    /\ bookings[2].guestId # bookings[1].guestId
    /\ bookings[2].roomId = bookings[1].roomId
    /\ bookings[2].checkInDate = bookings[1].checkInDate
    /\ bookings[2].checkOutDate = bookings[1].checkOutDate
    /\ bookings[2].status = PENDING

\* C9: processPayment on an existing payment sets it to PROCESSING before
\* the delay; when the settlement succeeds it returns true, the payment is
\* COMPLETED with transaction reference and paid-at time, and the booking is
\* CONFIRMED.
C9_SuccessfulSettlement ==
    \A p \in DOMAIN payments :
        /\ LET run == processPayment_start(payments, p)
           IN  run.result = "suspended" /\ run.payments[p].status = PROCESSING
        /\ settling[p] > 0 =>
              LET b == payments[p].bookingId
                  run == processPayment_finish(payments, bookings, p, b, TRUE)
              IN  /\ run.result = "true"
                  /\ run.payments[p].status = COMPLETED
                  /\ run.payments[p].transactionId
                  /\ run.payments[p].paidAt
                  /\ run.bookings[b].status = CONFIRMED

\* C9 witness: a settlement has resolved: the payment is COMPLETED with its
\* reference and the booking CONFIRMED.
C9_Witness ==
    \E p \in DOMAIN payments :
        /\ settling[p] = 0
        /\ payments[p].status = COMPLETED
        /\ payments[p].transactionId /\ payments[p].paidAt
        /\ bookings[payments[p].bookingId].status = CONFIRMED

\* C10: cancelBooking on a PENDING or CONFIRMED booking returns true and
\* sets the booking CANCELLED; its payment becomes REFUNDED if it was
\* COMPLETED and is otherwise unchanged; no other record changes.
C10_CancelAndRefund ==
    \A b \in DOMAIN bookings :
        bookings[b].status \in {PENDING, CONFIRMED} =>
            LET run == cancelBooking_run(bookings, payments, b)
            IN  /\ run.result = "true"
                /\ run.bookings = [bookings EXCEPT ![b].status = CANCELLED]
                /\ run.payments[b] =
                      IF payments[b].status = COMPLETED
                      THEN [payments[b] EXCEPT !.status = REFUNDED]
                      ELSE payments[b]
                /\ \A p \in DOMAIN payments \ {b} : run.payments[p] = payments[p]

\* C10 witness: one cancelled booking whose payment was refunded and one
\* cancelled booking whose payment, never completed, was left PENDING.
C10_Witness ==
    \E b1 \in DOMAIN bookings : \E b2 \in DOMAIN bookings :
        /\ bookings[b1].status = CANCELLED /\ PaymentOf(b1).status = REFUNDED
        /\ bookings[b2].status = CANCELLED /\ PaymentOf(b2).status = PENDING

\* Call c leaves the try block in this step, having found its room available
\* while the room is still in the store.
CommitsOnAvailableRoom(c) ==
    /\ calls[c].pc = "checked" /\ calls'[c].pc = "done"
    /\ calls[c].isAvailable
    /\ calls[c].roomId \in rooms

\* C11: on an available room, createBooking with numberOfGuests up to and
\* including the room's capacity returns a created pair and writes its
\* booking and payment; with numberOfGuests above the capacity it throws a
\* ValidationError ("Room capacity exceeded") and writes no booking and no
\* payment.
C11_CapacityBoundary ==
    [][\A c \in CallIds :
          CommitsOnAvailableRoom(c) =>
              IF calls[c].numberOfGuests <= capacity[calls[c].roomId]
              THEN /\ calls'[c].result = "created"
                   /\ c \notin DOMAIN bookings /\ c \in DOMAIN bookings'
                   /\ c \notin DOMAIN payments /\ c \in DOMAIN payments'
              ELSE /\ calls'[c].result = "ValidationError"
                   /\ calls'[c].error = "Room capacity exceeded"
                   /\ bookings' = bookings /\ payments' = payments]_vars

\* C11 witness: on one room, a call with numberOfGuests = capacity + 1 threw
\* "capacity exceeded" and wrote nothing, and a call with numberOfGuests =
\* capacity returned a created pair.
C11_Witness ==
    \E c1 \in CallIds : \E c2 \in CallIds :
        /\ calls[c1].pc = "done" /\ calls[c1].error = "Room capacity exceeded"
        /\ calls[c1].numberOfGuests = capacity[calls[c1].roomId] + 1
        /\ c1 \notin DOMAIN bookings /\ c1 \notin DOMAIN payments
        /\ calls[c2].result = "created"
        /\ calls[c2].roomId = calls[c1].roomId
        /\ calls[c2].numberOfGuests = capacity[calls[c2].roomId]
        /\ c2 \in DOMAIN bookings /\ c2 \in DOMAIN payments

\* The number of nights of a stay: the least n with n days >= checkOut - checkIn.
IsNightsOf(n, checkInDate, checkOutDate) ==
    /\ n * TicksPerDay >= checkOutDate - checkInDate
    /\ (n - 1) * TicksPerDay < checkOutDate - checkInDate

\* C12: for every createBooking with well-formed input that returned a
\* created pair, the booking's
\* totalPrice is nights * pricePerNight with nights the days from check-in to
\* check-out rounded up, and the payment's amount is totalPrice plus 3% of
\* it (to the cent), which is more than totalPrice; 5 nights at 150 give
\* totalPrice 750, fee 22.50 and amount 772.50 (amounts in cents).
C12_PriceAndSurcharge ==
    \A c \in CallIds :
        (/\ calls[c].result = "created"
         /\ ValidInput(calls[c].guestId, calls[c].roomId, calls[c].checkInDate,
                       calls[c].checkOutDate, calls[c].numberOfGuests)) =>
            LET b == bookings[c]
                nights == b.totalPrice \div pricePerNight[b.roomId]
            IN  /\ b.totalPrice = nights * pricePerNight[b.roomId]
                /\ IsNightsOf(nights, b.checkInDate, b.checkOutDate)
                /\ 100 * payments[c].amount = 100 * (100 * b.totalPrice)
                                                + FeePercent * (100 * b.totalPrice)
                /\ payments[c].amount > 100 * b.totalPrice
                /\ (nights = 5 /\ pricePerNight[b.roomId] = 150) =>
                        /\ b.totalPrice = 750
                        /\ payments[c].amount - 100 * b.totalPrice = 2250
                        /\ payments[c].amount = 77250

\* C12, the later version's case: a stay of 5 nights in the room at 150 was
\* booked, and so was a stay of a night and a half.
C12_LongStayBooked ==
    \E c \in DOMAIN bookings :
        /\ calls[c].result = "created"
        /\ pricePerNight[bookings[c].roomId] = 150
        /\ bookings[c].checkOutDate - bookings[c].checkInDate \in {3, 10}

\* A booking of call c's room that is not CANCELLED intersects c's range.
RangeIsTaken(c) ==
    \E b \in DOMAIN bookings :
        /\ bookings[b].roomId = calls[c].roomId
        /\ bookings[b].status # CANCELLED
        /\ Intersect(calls[c].checkInDate, calls[c].checkOutDate,
                     bookings[b].checkInDate, bookings[b].checkOutDate)

\* C13: a createBooking whose range, when it re-checks under the lock,
\* intersects a booking of the same room that is not CANCELLED finds the room
\* unavailable; it then returns null with no error, writes no booking and no
\* payment, and releases the room's lock.
C13_OverlapReturnsNull ==
    [][\A c \in CallIds :
          /\ (calls[c].pc = "locked" /\ calls'[c].pc = "checked" /\ RangeIsTaken(c))
                => ~calls'[c].isAvailable
          /\ (calls[c].pc = "checked" /\ calls'[c].pc = "done"
                /\ ~calls[c].isAvailable)
                => /\ calls'[c].result = "null" /\ calls'[c].error = ""
                   /\ bookings' = bookings /\ payments' = payments
                   /\ calls[c].roomId \notin locks']_vars

\* C13 witness: a call returned null for a room in the store while a booking
\* of that room, not CANCELLED, intersects its range; nothing was written for
\* it and the room's lock is free.
C13_Witness ==
    \E c \in CallIds :
        /\ calls[c].pc = "done" /\ calls[c].result = "null"
        /\ calls[c].roomId \in rooms
        /\ RangeIsTaken(c)
        /\ \E b \in DOMAIN bookings :
              /\ bookings[b].roomId = calls[c].roomId
              /\ bookings[b].status = CONFIRMED
              /\ bookings[b].checkInDate < calls[c].checkInDate
              /\ calls[c].checkInDate < bookings[b].checkOutDate
        /\ c \notin DOMAIN bookings /\ c \notin DOMAIN payments
        /\ LockIsFree(calls[c].roomId)

\* C14: a createBooking whose room identifier is not in the store when it
\* re-checks under the lock finds the room unavailable, and so returns null
\* (not NotFoundError), writes no booking and no payment, and releases the
\* lock.
C14_UnknownRoomReturnsNull ==
    [][\A c \in CallIds :
          /\ (calls[c].pc = "locked" /\ calls'[c].pc = "checked"
                /\ calls[c].roomId \notin rooms)
                => ~calls'[c].isAvailable
          /\ (calls[c].pc = "checked" /\ calls'[c].pc = "done"
                /\ calls[c].roomId \notin rooms /\ ~calls[c].isAvailable)
                => /\ calls'[c].result = "null"
                   /\ calls'[c].result # "NotFoundError"
                   /\ bookings' = bookings /\ payments' = payments
                   /\ calls[c].roomId \notin locks']_vars

\* C14 witness: a call for "room-0", which was never in the store, returned
\* null; nothing was written for it and that room's lock is free.
C14_Witness ==
    \E c \in CallIds :
        /\ calls[c].pc = "done" /\ calls[c].roomId = "room-0"
        /\ calls[c].result = "null"
        /\ c \notin DOMAIN bookings /\ c \notin DOMAIN payments
        /\ LockIsFree("room-0")

\* The payments that reference booking b.
PaymentsFor(b) == {p \in DOMAIN payments : payments[p].bookingId = b}

\* Every booking has exactly one payment and every payment has its booking.
OneToOne ==
    /\ \A b \in DOMAIN bookings : Cardinality(PaymentsFor(b)) = 1
    /\ \A p \in DOMAIN payments : payments[p].bookingId \in DOMAIN bookings

\* C15: in every state, each booking has exactly one payment whose bookingId
\* is its id and each payment references an existing booking; and a
\* createBooking that returns a created pair adds, in one step, exactly one
\* booking with status PENDING and one payment with status PENDING that
\* references it.
C15_BookingAndPaymentTogether ==
    /\ []OneToOne
    /\ [][\A c \in CallIds :
            (calls[c].pc = "checked" /\ calls'[c].result = "created") =>
                /\ DOMAIN bookings' = DOMAIN bookings \cup {c}
                /\ c \notin DOMAIN bookings
                /\ bookings'[c].status = PENDING
                /\ Cardinality(DOMAIN payments') = Cardinality(DOMAIN payments) + 1
                /\ \E p \in DOMAIN payments' \ DOMAIN payments :
                      /\ payments'[p].status = PENDING
                      /\ payments'[p].bookingId = c]_vars

\* C15 witness: two createBooking calls returned a created pair, and one of
\* the bookings has since been confirmed by its payment's settlement.
C15_Witness ==
    /\ Cardinality(DOMAIN bookings) = 2 /\ Cardinality(DOMAIN payments) = 2
    /\ \A c \in CallIds : calls[c].result = "created"
    /\ \E b \in DOMAIN bookings :
          bookings[b].status = CONFIRMED /\ payments[b].status = COMPLETED
    /\ \E b \in DOMAIN bookings :
          bookings[b].status = PENDING /\ payments[b].status = PENDING

\* Some call other than c is in its critical section on room r.
HeldByOther(c, r) ==
    \E c2 \in CallIds \ {c} : InCriticalSection(c2) /\ calls[c2].roomId = r

\* C16 (SpecCreate): a createBooking call is kept out of its critical
\* section only by a call on the same room.  A call starts to wait, or times
\* out, only while another call holds the lock of its own room; and a waiting
\* call whose room no other call holds finds the lock free at its next poll,
\* whatever calls hold or wait for the locks of other rooms.
C16_RoomsDoNotContend ==
    /\ [](\A c \in CallIds :
            calls[c].pc = "waiting" =>
                (HeldByOther(c, calls[c].roomId) \/ ENABLED acquireLock_poll(c)))
    /\ [][\A c \in CallIds :
            (\/ calls[c].pc = "idle" /\ calls'[c].pc = "waiting"
             \/ calls[c].pc = "waiting" /\ calls'[c].pc = "done")
                => HeldByOther(c, calls'[c].roomId)]_vars

\* C16 witness: the first call still holds the lock of its room while the
\* second call, for another room, has taken its own lock, run its critical
\* section and returned a created pair.
C16_Witness ==
    /\ InCriticalSection(1)
    /\ calls[2].pc = "done" /\ calls[2].result = "created"
    /\ calls[1].roomId # calls[2].roomId
    /\ calls[1].roomId \in locks /\ calls[2].roomId \notin locks

\* The arguments call c was made with are malformed.  (A call that threw at
\* validation keeps none of them.)
Malformed(c) ==
    /\ calls[c].pc # "idle"
    /\ ~ValidInput(calls[c].guestId, calls[c].roomId, calls[c].checkInDate,
                   calls[c].checkOutDate, calls[c].numberOfGuests)

ValidationMessages ==
    {"Guest ID and Room ID are required", "Invalid date format",
     "Check-out date must be after check-in date",
     "Number of guests must be at least 1"}

\* C17: a createBooking call with malformed input (empty guest or room id,
\* unparsable date, check-out not after check-in, numberOfGuests below 1) has
\* thrown a ValidationError without ever waiting for or holding a lock, and
\* every persisted booking has checkOutDate > checkInDate and
\* numberOfGuests >= 1.
C17_MalformedInputRejected ==
    /\ \A c \in CallIds :
          Malformed(c) =>
              /\ calls[c].pc = "done"
              /\ calls[c].result = "ValidationError"
              /\ calls[c].error \in ValidationMessages
    /\ \A b \in DOMAIN bookings :
          /\ bookings[b].checkOutDate > bookings[b].checkInDate
          /\ bookings[b].numberOfGuests >= 1

\* C17, the later version's case: a call with malformed input has thrown
\* "Check-out date must be after check-in date", no lock is set and nothing
\* is persisted.
C17_RejectedBeforeLock ==
    /\ calls[1].pc = "done"
    /\ calls[1].error = "Check-out date must be after check-in date"
    /\ calls[2].pc = "idle"
    /\ locks = {} /\ DOMAIN bookings = {} /\ DOMAIN payments = {}

\* C18: a createBooking call whose acquireLock gave up leaves with an error
\* whose message asks to try again, never with null or a created pair; the
\* step writes no booking and no payment and sets no lock, and nothing is
\* ever persisted for that call.
C18_TimeoutIsAnError ==
    /\ [][\A c \in CallIds :
            (calls[c].pc = "waiting" /\ calls'[c].pc = "done") =>
                /\ calls'[c].result \notin {"null", "created", "none"}
                /\ calls'[c].error =
                      "Unable to process booking at this time. Please try again."
                /\ bookings' = bookings /\ payments' = payments
                /\ locks' = locks]_vars
    /\ [](\A c \in CallIds :
            TimedOut(c) =>
                /\ calls[c].result # "null"
                /\ c \notin DOMAIN bookings /\ c \notin DOMAIN payments)

\* C18 witness: the second call, for the same room and range as the first,
\* timed out waiting for the lock; the first call then returned its created
\* pair, which is all the store holds.
C18_Witness ==
    /\ TimedOut(2)
    /\ calls[1].result = "created"
    /\ calls[2].roomId = calls[1].roomId
    /\ calls[2].checkInDate = calls[1].checkInDate
    /\ calls[2].checkOutDate = calls[1].checkOutDate
    /\ DOMAIN bookings = {1} /\ DOMAIN payments = {1}

\* Some booking of room r that is not CANCELLED has an interval [c, d) with
\* start < d and c < end.
HalfOpenConflict(r, start, end) ==
    \E b \in DOMAIN bookings :
        /\ bookings[b].roomId = r
        /\ bookings[b].status # CANCELLED
        /\ start < bookings[b].checkOutDate
        /\ bookings[b].checkInDate < end

\* C19: in every state, for every room in the store and every range with
\* start < end, checkRoomAvailability returns false exactly when a booking of
\* that room that is not CANCELLED intersects [start, end) as a half-open
\* interval; a range that starts on a booking's check-out date or ends on its
\* check-in date is not blocked by that booking.
C19_HalfOpenOverlap ==
    \A r \in rooms : \A start \in 1 .. MaxStayDate : \A end \in 1 .. MaxStayDate :
        start < end =>
            /\ checkRoomAvailability(r, start, end) = ~HalfOpenConflict(r, start, end)
            /\ \A b \in getBookingsByRoomId(bookings, r) :
                  (start = bookings[b].checkOutDate \/ end = bookings[b].checkInDate)
                      => Available(rooms, [x \in {b} |-> bookings[b]], r, start, end)

\* C19 witness: room-3 has a CHECKED_IN booking [3, 6); it is available for
\* [6, 8), which starts on the check-out date, and for [1, 3), which ends on
\* the check-in date, and not for [1, 4), [5, 8), [4, 5) or [2, 7).
C19_Witness ==
    /\ \E b \in DOMAIN bookings :
          /\ bookings[b].roomId = "room-3" /\ bookings[b].status = CHECKED_IN
          /\ bookings[b].checkInDate = 3 /\ bookings[b].checkOutDate = 6
    /\ checkRoomAvailability("room-3", 6, 8)
    /\ checkRoomAvailability("room-3", 1, 3)
    /\ ~checkRoomAvailability("room-3", 1, 4)
    /\ ~checkRoomAvailability("room-3", 5, 8)
    /\ ~checkRoomAvailability("room-3", 4, 5)
    /\ ~checkRoomAvailability("room-3", 2, 7)

\* The store without its CANCELLED bookings.
WithoutCancelled(bs) ==
    [b \in {x \in DOMAIN bs : bs[x].status # CANCELLED} |-> bs[b]]

\* C20: checkRoomAvailability gives the same answer as on the store without
\* its CANCELLED bookings; once cancelBooking succeeds on the only booking
\* that blocks a range of a room, that range is available; and a createBooking
\* that re-checks a range blocked by no booking other than CANCELLED ones
\* finds the room available.
C20_CancelledNeverBlocks ==
    /\ [](\A r \in rooms : \A start \in 1 .. MaxDate : \A end \in 1 .. MaxDate :
            start < end =>
                checkRoomAvailability(r, start, end)
                    = Available(rooms, WithoutCancelled(bookings), r, start, end))
    /\ [](\A b \in DOMAIN bookings :
            LET run == cancelBooking_run(bookings, payments, b)
            IN  (/\ run.result = "true"
                 /\ bookings[b].roomId \in rooms
                 /\ ~OtherBookingBlocks(b))
                    => /\ ~checkRoomAvailability(bookings[b].roomId,
                              bookings[b].checkInDate, bookings[b].checkOutDate)
                       /\ Available(rooms, run.bookings, bookings[b].roomId,
                              bookings[b].checkInDate, bookings[b].checkOutDate))
    /\ [][\A c \in CallIds :
            (/\ calls[c].pc = "locked" /\ calls'[c].pc = "checked"
             /\ calls[c].roomId \in rooms
             /\ ~RangeIsTaken(c))
                => calls'[c].isAvailable]_vars

\* C20 witness: the first call's booking was cancelled by cancelBooking (its
\* completed payment is REFUNDED), and the second call, for the same room
\* and range, then returned a created pair.
C20_Witness ==
    /\ calls[1].result = "created" /\ calls[2].result = "created"
    /\ bookings[1].status = CANCELLED /\ payments[1].status = REFUNDED
    /\ bookings[2].roomId = bookings[1].roomId
    /\ bookings[2].checkInDate = bookings[1].checkInDate
    /\ bookings[2].checkOutDate = bookings[1].checkOutDate
    /\ bookings[2].status = PENDING

\* The calendar day a timestamp falls on.
DayOf(t) == t \div TicksPerDay

\* C21: checkIn returns true exactly for a CONFIRMED booking whose check-in
\* day is the day of the call or an earlier one, and then sets that booking,
\* and nothing else, to CHECKED_IN; for a CONFIRMED booking whose check-in
\* day is still to come it throws an error and leaves the bookings unchanged;
\* checkOut on a CHECKED_IN booking returns true and sets it to CHECKED_OUT.
C21_CheckInAndCheckOut ==
    \A b \in DOMAIN bookings :
        /\ \A now \in 1 .. MaxStayDate :
              LET run == checkIn_run(bookings, b, now)
                  due == DayOf(bookings[b].checkInDate) <= DayOf(now)
              IN  /\ (run.result = "true")
                        = (bookings[b].status = CONFIRMED /\ due)
                  /\ run.result = "true" =>
                        run.bookings = [bookings EXCEPT ![b].status = CHECKED_IN]
                  /\ (bookings[b].status = CONFIRMED /\ ~due) =>
                        /\ run.result = "Error"
                        /\ run.error = "Check-in date has not arrived yet"
                        /\ run.bookings = bookings
        /\ bookings[b].status = CHECKED_IN =>
              LET run == checkOut_run(bookings, b)
              IN  /\ run.result = "true"
                  /\ run.bookings = [bookings EXCEPT ![b].status = CHECKED_OUT]

\* C21 witness: a booking whose stay begins in the second half of a day has
\* been checked in and then checked out.
C21_Witness ==
    \E b \in DOMAIN bookings :
        /\ bookings[b].status = CHECKED_OUT
        /\ bookings[b].checkInDate = 3

\* The failure kinds of a booking request that call c ended in.
LockTimeoutOutcome(c) == TimedOut(c)

UnavailableOutcome(c) == calls[c].pc = "done" /\ calls[c].result = "null"

InvalidInputOutcome(c) ==
    /\ calls[c].pc = "done"
    /\ calls[c].error \in ValidationMessages \cup {"Room capacity exceeded"}

\* What the caller is given for call c: the error type (or null) of the
\* service and the status of the controller's response.
ReportOf(c) == <<calls[c].result, createBooking_status(calls[c].result)>>

\* What the caller is given when the settlement of the payment fails.
SettlementFailureReport ==
    LET result == processPayment_finish(payments, bookings, UnknownId, UnknownId,
                                        FALSE).result
    IN  <<result, createBooking_status(result)>>

\* C22: a lock timeout, the unavailable outcome, invalid input (capacity
\* exceeded included) and a settlement failure reach the caller with pairwise
\* different error types and pairwise different statuses.
C22_FailureKindsDistinct ==
    \A c1 \in CallIds : \A c2 \in CallIds :
        LET differ(r1, r2) == r1[1] # r2[1] /\ r1[2] # r2[2]
        IN  /\ (LockTimeoutOutcome(c1) /\ UnavailableOutcome(c2))
                    => differ(ReportOf(c1), ReportOf(c2))
            /\ (LockTimeoutOutcome(c1) /\ InvalidInputOutcome(c2))
                    => differ(ReportOf(c1), ReportOf(c2))
            /\ (UnavailableOutcome(c1) /\ InvalidInputOutcome(c2))
                    => differ(ReportOf(c1), ReportOf(c2))
            /\ (LockTimeoutOutcome(c1) \/ UnavailableOutcome(c1)
                    \/ InvalidInputOutcome(c1))
                    => differ(ReportOf(c1), SettlementFailureReport)

\* Room r satisfies the filters a query gives: its type, a capacity of at
\* least minCapacity, a price of at most maxPrice.
MatchesQuery(r, query) ==
    /\ query.roomType # "" => roomType[r] = query.roomType
    /\ query.minCapacity # Undefined => capacity[r] >= query.minCapacity
    /\ query.maxPrice # Undefined => pricePerNight[r] <= query.maxPrice

\* The entries of a list that are about room r.
EntriesFor(list, r) == {i \in DOMAIN list : list[i].roomId = r}

\* C23: getAvailableRooms, when it returns a list, returns exactly one entry
\* for every room of the store that satisfies the type, minimum-capacity and
\* maximum-price filters and none for any other room; without a date range
\* every entry has isAvailable = TRUE, and with a valid range every entry's
\* isAvailable is checkRoomAvailability of its room for that range.
C23_AvailableRoomsList ==
    \A query \in Queries :
        LET run == getAvailableRooms(rooms, bookings, query)
            dated == query.checkInDate # Undefined /\ query.checkOutDate # Undefined
        IN  run.result = "ok" =>
                /\ \A r \in rooms :
                      Cardinality(EntriesFor(run.rooms, r))
                          = IF MatchesQuery(r, query) THEN 1 ELSE 0
                /\ \A i \in DOMAIN run.rooms :
                      /\ run.rooms[i].roomId \in rooms
                      /\ ~dated => run.rooms[i].isAvailable
                      /\ dated => run.rooms[i].isAvailable =
                            checkRoomAvailability(run.rooms[i].roomId,
                                query.checkInDate, query.checkOutDate)

\* C23, for the queries whose maxPrice is not 0: the same statement holds.
C23_ExceptZeroMaxPrice ==
    \A query \in {q \in Queries : q.maxPrice # 0} :
        LET run == getAvailableRooms(rooms, bookings, query)
            dated == query.checkInDate # Undefined /\ query.checkOutDate # Undefined
        IN  run.result = "ok" =>
                /\ \A r \in rooms :
                      Cardinality(EntriesFor(run.rooms, r))
                          = IF MatchesQuery(r, query) THEN 1 ELSE 0
                /\ \A i \in DOMAIN run.rooms :
                      /\ run.rooms[i].roomId \in rooms
                      /\ ~dated => run.rooms[i].isAvailable
                      /\ dated => run.rooms[i].isAvailable =
                            checkRoomAvailability(run.rooms[i].roomId,
                                query.checkInDate, query.checkOutDate)

\* The calls that are between their successful acquireLock and their
\* releaseLock on room r.
Holders(r) == {c \in CallIds : InCriticalSection(c) /\ calls[c].roomId = r}

\* C24 (SpecCreate): at most one createBooking call per room is between its
\* successful acquireLock and its releaseLock, and the key of the room is set
\* for as long as it is; no call enters that section (acquireLock returning
\* true, at the call or at a later poll) while another call holds the same
\* room.
C24_OneHolderPerRoom ==
    /\ [](\A r \in RoomInputs :
            /\ Cardinality(Holders(r)) <= 1
            /\ Holders(r) # {} => ~LockIsFree(r))
    /\ [][\A c \in CallIds :
            (~InCriticalSection(c) /\ calls'[c].pc \in {"locked", "checked"})
                => ~HeldByOther(c, calls'[c].roomId)]_vars

\* C24 witness: the first call is inside its critical section, alone, while
\* the second call polls for the lock of the same room.
C24_Witness ==
    /\ calls[2].pc = "waiting"
    /\ calls[1].pc = "checked"
    /\ Holders(calls[2].roomId) = {1}

\* The edges of the booking status diagram.
BookingEdges ==
    {<<PENDING, CONFIRMED>>, <<CONFIRMED, CHECKED_IN>>, <<CHECKED_IN, CHECKED_OUT>>,
     <<PENDING, CANCELLED>>, <<CONFIRMED, CANCELLED>>}

\* C25: every step that changes the status of a booking, under any sequence
\* and interleaving of createBooking, processPayment, cancelBooking, checkIn
\* and checkOut, changes it along one of the edges PENDING -> CONFIRMED,
\* CONFIRMED -> CHECKED_IN, CHECKED_IN -> CHECKED_OUT, PENDING -> CANCELLED,
\* CONFIRMED -> CANCELLED.
C25_BookingStatusEdges ==
    [][\A b \in DOMAIN bookings :
          bookings'[b].status # bookings[b].status
              => <<bookings[b].status, bookings'[b].status>> \in BookingEdges]_vars

\* The edges of the payment status diagram.
PaymentEdges ==
    {<<PENDING, PROCESSING>>, <<PROCESSING, COMPLETED>>, <<PROCESSING, FAILED>>,
     <<COMPLETED, REFUNDED>>}

\* C26: every step that changes the status of a payment changes it along
\* PENDING -> PROCESSING, PROCESSING -> COMPLETED, PROCESSING -> FAILED or
\* COMPLETED -> REFUNDED; a COMPLETED, FAILED or REFUNDED payment is never
\* moved back to PROCESSING or COMPLETED.
C26_PaymentStatusEdges ==
    [][\A p \in DOMAIN payments :
          payments'[p].status # payments[p].status
              => <<payments[p].status, payments'[p].status>> \in PaymentEdges]_vars

\* The room of the booking that payment p pays for.
RoomOfPayment(p) == bookings[payments[p].bookingId].roomId

\* Call c is a createBooking on the room of payment p, whose processPayment
\* is suspended in its delay.
DuringSettlement(p, c) ==
    /\ settling[p] > 0
    /\ calls[c].pc # "idle"
    /\ calls[c].roomId = RoomOfPayment(p)

\* C27: processPayment never sets, holds or waits for a room lock.  Its
\* steps leave the lock table and every createBooking call as they are;
\* while it is suspended in its delay a createBooking on the same room is
\* never held up by it (a waiter whose room no other call holds can take the
\* lock, a call holding the lock can run its check and its commit); and a
\* call that commits while the reservation is still PENDING returns null if
\* its range overlaps the reservation and otherwise a created pair (a
\* ValidationError if its party exceeds the capacity).
C27_SettlementOutsideLock ==
    /\ [][settling' # settling => (locks' = locks /\ calls' = calls)]_vars
    /\ [](\A p \in DOMAIN payments : \A c \in CallIds :
            DuringSettlement(p, c) =>
                /\ (calls[c].pc = "waiting" /\ ~HeldByOther(c, calls[c].roomId))
                        => ENABLED acquireLock_poll(c)
                /\ calls[c].pc = "locked" => ENABLED createBooking_check(c)
                /\ calls[c].pc = "checked" => ENABLED createBooking_commit(c))
    /\ [][\A p \in DOMAIN payments : \A c \in CallIds :
            (/\ DuringSettlement(p, c)
             /\ bookings[payments[p].bookingId].status = PENDING
             /\ calls[c].pc = "checked" /\ calls'[c].pc = "done")
                => calls'[c].result =
                      IF Intersect(calls[c].checkInDate, calls[c].checkOutDate,
                                   bookings[payments[p].bookingId].checkInDate,
                                   bookings[payments[p].bookingId].checkOutDate)
                      THEN "null"
                      ELSE IF calls[c].numberOfGuests > capacity[calls[c].roomId]
                           THEN "ValidationError"
                           ELSE "created"]_vars

\* C27 witness: the settlement of the first booking is still suspended, the
\* booking still PENDING, and a second createBooking on the same room has
\* taken the lock, written its own pair and released the lock.
C27_Witness ==
    /\ 1 \in DOMAIN payments /\ settling[1] > 0
    /\ bookings[1].status = PENDING
    /\ 2 \in DOMAIN bookings
    /\ bookings[2].roomId = bookings[1].roomId
    /\ calls[2].pc = "done" /\ calls[2].result = "created"
    /\ LockIsFree(bookings[1].roomId)

\* C27, the other outcome: during the suspended settlement a second
\* createBooking on the same room and range has returned null.
C27_UnavailableDuringSettlement ==
    /\ 1 \in DOMAIN payments /\ settling[1] > 0
    /\ bookings[1].status = PENDING
    /\ calls[2].pc = "done" /\ calls[2].result = "null"
    /\ calls[2].roomId = bookings[1].roomId
    /\ calls[2].checkInDate = bookings[1].checkInDate

\* In this step call c ends with a validation or not-found failure (the lock
\* timeout, which is no finding about the request, is not one of them).
RejectedInStep(c) ==
    /\ calls[c].pc # "done" /\ calls'[c].pc = "done"
    /\ calls'[c].result \in {"ValidationError", "NotFoundError"}
    /\ calls'[c].error # "Unable to process booking at this time. Please try again."

\* C28: every validation and not-found failure of createBooking, "Room
\* capacity exceeded" and "Room not found" included, is raised by a call that
\* has not taken the room's lock, in a step that writes no booking and no
\* payment.
C28_RejectedBeforeLocking ==
    [][\A c \in CallIds :
          RejectedInStep(c) =>
              /\ ~InCriticalSection(c)
              /\ bookings' = bookings /\ payments' = payments]_vars

\* C28, the part that holds: a call rejected for an empty id, a bad date, a
\* range that is not positive or a party below 1 never took a lock, and no
\* rejection writes a record.
C28_InputChecksBeforeLocking ==
    [][\A c \in CallIds :
          RejectedInStep(c) =>
              /\ calls'[c].error \in ValidationMessages => calls[c].pc = "idle"
              /\ bookings' = bookings /\ payments' = payments]_vars

\* The well-formed identifiers that are not in a store s.
AbsentIds(s) == (CallIds \cup {UnknownId}) \ DOMAIN s

\* C29: a rejected request leaves every booking and payment as it was.  A
\* createBooking call that ends with anything but a created pair (validation
\* error, not-found error, lock timeout, null) changes no booking and no
\* payment in any of its steps; and processPayment, cancelBooking, checkIn and
\* checkOut called with an identifier that is not in the store throw a
\* NotFoundError and return the store they were given.
C29_RejectionWritesNothing ==
    /\ [][\A c \in CallIds :
            (calls'[c] # calls[c] /\ calls'[c].result # "created")
                => (bookings' = bookings /\ payments' = payments)]_vars
    /\ [](/\ \A p \in AbsentIds(payments) :
              LET run == processPayment_start(payments, p)
              IN  run.result = "NotFoundError" /\ run.payments = payments
          /\ \A b \in AbsentIds(bookings) :
              /\ LET run == cancelBooking_run(bookings, payments, b)
                 IN  /\ run.result = "NotFoundError"
                     /\ run.bookings = bookings /\ run.payments = payments
              /\ \A now \in 1 .. MaxDate :
                    LET run == checkIn_run(bookings, b, now)
                    IN  run.result = "NotFoundError" /\ run.bookings = bookings
              /\ LET run == checkOut_run(bookings, b)
                 IN  run.result = "NotFoundError" /\ run.bookings = bookings)

\* C29 witness: the store holds the pair of the first call, CONFIRMED and
\* paid, and the second call, for the same room, was rejected for its party
\* size; identifier 2 is not in the store.
C29_Witness ==
    /\ DOMAIN bookings = {1} /\ DOMAIN payments = {1}
    /\ bookings[1].status = CONFIRMED /\ payments[1].status = COMPLETED
    /\ calls[2].pc = "done" /\ calls[2].error = "Room capacity exceeded"
    /\ calls[2].roomId = bookings[1].roomId

\* The date ranges a query can ask for.
ValidRanges == {d \in (1 .. MaxDate) \X (1 .. MaxDate) : d[1] < d[2]}

\* Booking b of store bs blocks the range [checkInDate, checkOutDate) on its
\* room.
Blocks(bs, b, checkInDate, checkOutDate) ==
    /\ bs[b].status # CANCELLED
    /\ Intersect(checkInDate, checkOutDate, bs[b].checkInDate, bs[b].checkOutDate)

\* getNextAvailableDate(r, fromDate) on the current store is the check-out
\* date of a non-cancelled booking of r that checks out after fromDate and
\* has the earliest check-in among those, and is Undefined when r has none.
FirstCheckOutAfter(r, fromDate) ==
    LET d == getNextAvailableDate(bookings, r, fromDate)
        later == {b \in DOMAIN bookings :
                    /\ bookings[b].roomId = r
                    /\ bookings[b].status # CANCELLED
                    /\ bookings[b].checkOutDate > fromDate}
    IN  IF later = {} THEN d = Undefined
        ELSE \E b \in later :
                /\ d = bookings[b].checkOutDate
                /\ \A b2 \in later : bookings[b].checkInDate <= bookings[b2].checkInDate

\* C30: getNextAvailableDate(room, fromDate) returns the check-out date of
\* the first booking, in ascending check-in order among the room's
\* non-cancelled bookings, whose check-out date is after fromDate, and none
\* when there is no such booking; and whenever getAvailableRooms, having
\* found a room unavailable for a range, resumes from its await and asks for
\* the date, the booking picked blocks that range.
C30_NextAvailableDate ==
    /\ [](\A r \in SeedRooms : \A fromDate \in 1 .. MaxDate :
            FirstCheckOutAfter(r, fromDate))
    /\ [][\A r \in rooms : \A d \in ValidRanges :
            (/\ ~Available(rooms, bookings, r, d[1], d[2])
             /\ PushedEntry(bookings', r, FALSE, d[1]).availableFrom # Undefined)
                => Blocks(bookings', FirstCandidate(bookings', r, d[1]), d[1], d[2])]_vars

\* C30 when nothing runs during the await: for a room found unavailable for
\* a range, a booking is picked and it blocks the range.
C30_PickBlocksWithoutInterleaving ==
    /\ \A r \in SeedRooms : \A fromDate \in 1 .. MaxDate :
            FirstCheckOutAfter(r, fromDate)
    /\ \A r \in rooms : \A d \in ValidRanges :
            ~Available(rooms, bookings, r, d[1], d[2]) =>
                /\ DatedEntry(rooms, bookings, r, d[1], d[2]).availableFrom # Undefined
                /\ Blocks(bookings, FirstCandidate(bookings, r, d[1]), d[1], d[2])

\* Some non-cancelled booking of room r occupies date t: t lies in its
\* interval [checkInDate, checkOutDate).
Occupied(r, t) ==
    \E b \in DOMAIN bookings :
        /\ bookings[b].roomId = r
        /\ bookings[b].status # CANCELLED
        /\ bookings[b].checkInDate <= t /\ t < bookings[b].checkOutDate

\* C31: whenever getAvailableRooms reports a room as not available for a
\* range, the availableFrom of the entry is a date that no non-cancelled
\* booking of the room occupies, also when the room has back-to-back
\* bookings.
C31_AvailableFromIsFree ==
    \A r \in rooms : \A d \in ValidRanges :
        LET entry == DatedEntry(rooms, bookings, r, d[1], d[2])
        IN  ~entry.isAvailable =>
                /\ entry.availableFrom # Undefined
                /\ ~Occupied(r, entry.availableFrom)

\* C32: in every reachable state, under any interleaving of deleteRoom with
\* createBooking, processPayment and cancelBooking, every booking with
\* status PENDING, CONFIRMED or CHECKED_IN references a room that is in the
\* store.
C32_ActiveBookingHasRoom ==
    \A b \in DOMAIN bookings :
        bookings[b].status \in ActiveStatuses => bookings[b].roomId \in rooms

\* C32, createBooking alone: a call that found its room available and whose
\* room was deleted during the await throws "Room not found" and writes
\* nothing, so no booking is ever created on a room that is not in the store.
C32_NoBookingCreatedOnDeletedRoom ==
    [][\A c \in CallIds :
          (c \notin DOMAIN bookings /\ c \in DOMAIN bookings')
              => bookings'[c].roomId \in rooms']_vars

\* Call c has been made and has not ended.
InFlight(c) == calls[c].pc \in {"waiting", "locked", "checked"}

\* C33 (SpecCreateFair): every createBooking call terminates.  A call in
\* flight always has a step it can take (a waiter can take the lock or give
\* up, a holder can go on), so no set of concurrent calls is deadlocked, and
\* under fair scheduling every call in flight eventually ends with a created
\* pair, with null or with an error.
C33_CreateBookingTerminates ==
    /\ [](\A c \in CallIds :
            InFlight(c) =>
                ENABLED (\/ acquireLock_poll(c) \/ acquireLock_timeout(c)
                         \/ createBooking_check(c) \/ createBooking_commit(c)))
    /\ \A c \in CallIds :
            InFlight(c) ~>
                (calls[c].pc = "done"
                    /\ calls[c].result \in {"created", "null", "ValidationError",
                                             "NotFoundError"})

\* C33 witness: both calls have ended, the second after waiting for the lock
\* the first one held until it gave up, and no lock is left set.
C33_Witness ==
    /\ calls[1].pc = "done" /\ calls[1].result \in {"created", "null"}
    /\ TimedOut(2)
    /\ locks = {}

\* C34: releaseLock is idempotent and unconditional.  Releasing a key that
\* is not set leaves the lock table as it is, releasing twice gives the same
\* table as releasing once, the key is free after a release whatever it was
\* before, and a call waiting for a key that is free takes it at its next
\* poll; every call that leaves its critical section leaves the table that
\* releaseLock gives.
C34_ReleaseIsIdempotent ==
    /\ [](\A r \in RoomInputs :
            /\ LockIsFree(r) => releaseLock(locks, r) = locks
            /\ releaseLock(releaseLock(locks, r), r) = releaseLock(locks, r)
            /\ r \notin releaseLock(locks, r)
            /\ \A r2 \in RoomInputs \ {r} :
                  (r2 \in releaseLock(locks, r)) = (r2 \in locks)
            /\ \A c \in CallIds :
                  (calls[c].pc = "waiting" /\ calls[c].roomId = r /\ LockIsFree(r))
                      => ENABLED acquireLock_poll(c))
    /\ [][\A c \in CallIds :
            (InCriticalSection(c) /\ calls'[c].pc = "done")
                => (/\ locks' = releaseLock(locks, calls[c].roomId)
                    /\ calls[c].roomId \notin locks')]_vars

\* C34 witness: the first call has released the lock of its room and the
\* second call, which was made for the same room, holds it now, while the
\* key of the other room is not set.
C34_Witness ==
    /\ calls[1].pc = "done" /\ calls[1].result = "created"
    /\ calls[2].pc = "locked"
    /\ calls[2].roomId = calls[1].roomId
    /\ locks = {calls[2].roomId}

\* C35 (SpecFlow): under the request flow in which every successful
\* createBooking is followed by a processPayment of its payment, every
\* booking eventually leaves PENDING for CONFIRMED or CANCELLED, whatever
\* other operations run in between.
C35_PendingIsLeft ==
    /\ \A b \in CallIds :
          (b \in DOMAIN bookings /\ bookings[b].status = PENDING)
              ~> (b \in DOMAIN bookings /\ bookings[b].status \in {CONFIRMED, CANCELLED})
    /\ [][\A b \in DOMAIN bookings :
            bookings[b].status = PENDING
                => bookings'[b].status \in {PENDING, CONFIRMED, CANCELLED}]_vars

\* C35 witness: one booking left PENDING by a settlement that succeeded and
\* another by one that failed.
C35_Witness ==
    \E b1 \in DOMAIN bookings : \E b2 \in DOMAIN bookings :
        /\ bookings[b1].status = CONFIRMED /\ payments[b1].status = COMPLETED
        /\ bookings[b2].status = CANCELLED /\ payments[b2].status = FAILED

\* C36: in every reachable state, under any sequence of processPayment,
\* cancelBooking, checkIn and checkOut calls, a booking whose status is
\* CONFIRMED, CHECKED_IN or CHECKED_OUT has a payment whose status is
\* COMPLETED.
C36_PaidWhenConfirmed ==
    \A b \in DOMAIN bookings :
        bookings[b].status \in {CONFIRMED, CHECKED_IN, CHECKED_OUT}
            => PaymentOf(b).status = COMPLETED

\* C36 under the request flow alone, where processPayment is called on a
\* payment only while it is PENDING: a step that starts a settlement on a
\* payment that is not PENDING is the only way to break the pairing.
C36_BrokenOnlyByRepeatedSettlement ==
    [][\A b \in DOMAIN bookings :
          (/\ bookings[b].status \in {CONFIRMED, CHECKED_IN, CHECKED_OUT}
              => PaymentOf(b).status = COMPLETED
           /\ bookings'[b].status \in {CONFIRMED, CHECKED_IN, CHECKED_OUT}
           /\ payments'[b].status # COMPLETED)
              => (payments[b].status # PENDING /\ payments'[b].status = PROCESSING)]_vars

\* C37: in every reachable state no CANCELLED booking has a COMPLETED
\* payment.  A step that cancels a booking leaves its payment FAILED or, if
\* it was COMPLETED, REFUNDED; a step that completes a payment sets its
\* booking CONFIRMED in the same step, also when cancelBooking ran while the
\* processPayment was suspended.
C37_NoCancelledWithCompletedPayment ==
    /\ [](\A b \in DOMAIN bookings :
            ~(bookings[b].status = CANCELLED /\ PaymentOf(b).status = COMPLETED))
    /\ [][\A b \in DOMAIN bookings :
            /\ (bookings[b].status # CANCELLED /\ bookings'[b].status = CANCELLED)
                  => /\ payments'[b].status # COMPLETED
                     /\ \/ payments'[b].status = FAILED
                        \/ payments[b].status = COMPLETED
                              => payments'[b].status = REFUNDED
            /\ (payments[b].status # COMPLETED /\ payments'[b].status = COMPLETED)
                  => bookings'[b].status = CONFIRMED]_vars

\* C37 witness: a booking is CANCELLED while a processPayment of its payment
\* is suspended in its delay, the payment PROCESSING.
C37_Witness ==
    \E b \in DOMAIN bookings :
        /\ bookings[b].status = CANCELLED
        /\ PaymentOf(b).status = PROCESSING
        /\ settling[b] > 0

\* C38: a room lock is released only by the createBooking call that holds
\* it.  Every step that clears the key of a room is the exit of the call
\* that is in its critical section on that room; a call that gives up
\* waiting, or that fails input validation, ends in a step that leaves the
\* lock table as it is, so the lock of the call in flight stays set.
C38_OnlyHolderReleases ==
    [][/\ \A r \in RoomInputs :
            (~LockIsFree(r) /\ r \notin locks')
                => \E c \in CallIds :
                      /\ InCriticalSection(c) /\ calls[c].roomId = r
                      /\ calls'[c].pc = "done"
       /\ \A c \in CallIds :
            (calls[c].pc \in {"idle", "waiting"} /\ calls'[c].pc = "done")
                => locks' = locks]_vars

\* C38 witness: the second call has given up waiting for the lock of the
\* room while the first call is still in its critical section, the key set.
C38_Witness ==
    /\ TimedOut(2)
    /\ InCriticalSection(1)
    /\ calls[1].roomId = calls[2].roomId
    /\ ~LockIsFree(calls[1].roomId)

\* The bookings and the payments that a step changes.
ChangedBookings == {b \in DOMAIN bookings : bookings'[b] # bookings[b]}
ChangedPayments == {p \in DOMAIN payments : payments'[p] # payments[p]}

====
